---- MODULE Spec2Model ----
(***************************************************************************)
(* Model of measure.py: the LED-strip current sweep (RangeInc, the colour  *)
(* ranges, do_measurement, run_measurements and run).                      *)
(*                                                                         *)
(* Voltages are integers in centivolts (5.5 V = 550); every voltage of the *)
(* model is a multiple of 0.25 V, which binary floating point represents   *)
(* exactly, so the float arithmetic of the source is exact on them.        *)
(* An optional value (Python None) is a tuple of length 0 or 1.            *)
(***************************************************************************)
EXTENDS Integers, Sequences, FiniteSets, TLC

VARIABLES
    args,              \* the parsed command line (argparse namespace)
    pc,                \* position of run()
    exc,               \* the exception in flight / propagated by run(), "none" if none
    first_exc,         \* history: the exception as first raised
    brightness_range,  \* <<>> until constructed, then <<RangeInc>>
    value_range,       \* <<>> until constructed, then <<RangeInc>>
    voltage_range,     \* <<>> for the list [None], else <<RangeInc>>
    mode,              \* Mode member name
    nb_iterations,     \* run_measurements: nb_iterations
    i,                 \* run_measurements: i
    v_iter,            \* values the voltage loop has still to yield
    b_iter,            \* values the brightness loop has still to yield
    c_iter,            \* values the colour loop has still to yield
    setpoint,          \* [voltage, brightness, rgb_color, red, green, blue] of the step
    measured,          \* do_measurement: <<voltage>> then <<voltage, current>>
    psu_voltage,       \* the instrument's voltage setpoint
    csv_file,          \* lines written to the output file
    log,               \* history: every collaborator call, in order
    step_start,        \* history: Len(log) when the current step began
    visited,           \* history: the Setpoints visited, in order
    p_pc,              \* pure-function harness: position
    p_rng,             \* pure-function harness: the RangeInc arguments
    p_mode,            \* pure-function harness: the Mode
    p_values,          \* pure-function harness: list(RangeInc(...))
    p_len,             \* pure-function harness: len(RangeInc(...))
    p_colors           \* pure-function harness: the unpacked colour triples

vars == <<args, pc, exc, first_exc, brightness_range, value_range, voltage_range,
          mode, nb_iterations, i, v_iter, b_iter, c_iter, setpoint, measured,
          psu_voltage, csv_file, log, step_start, visited,
          p_pc, p_rng, p_mode, p_values, p_len, p_colors>>

runVars == <<args, pc, exc, first_exc, brightness_range, value_range, voltage_range,
             mode, nb_iterations, i, v_iter, b_iter, c_iter, setpoint, measured,
             psu_voltage, csv_file, log, step_start, visited>>

pureVars == <<p_pc, p_rng, p_mode, p_values, p_len, p_colors>>

----------------------------------------------------------------------------
(* Program constants *)

VOLTAGE_ABSOLUTE_MAX == 550

COLOR_BITSHIFTS == <<16, 8, 0>>

ModeNames == {"INDIVIDUAL", "WHITE", "FULL"}

(* Bounds of the model *)

MaxLeds == 2

MaxBrightness == 3

PsuPresetVoltage == 500

StubPixelCurrent == 6

----------------------------------------------------------------------------
(* Integer bit operations of Python on non-negative integers *)

ShiftLeft(x, n) == x * (2 ^ n)

ShiftRight(x, n) == x \div (2 ^ n)

RECURSIVE BitOr(_, _)
BitOr(x, y) ==
    IF x = 0 THEN y
    ELSE IF y = 0 THEN x
    ELSE (IF (x % 2 = 1) \/ (y % 2 = 1) THEN 1 ELSE 0) + 2 * BitOr(x \div 2, y \div 2)

RECURSIVE BitAnd(_, _)
BitAnd(x, y) ==
    IF x = 0 \/ y = 0 THEN 0
    ELSE (IF (x % 2 = 1) /\ (y % 2 = 1) THEN 1 ELSE 0) + 2 * BitAnd(x \div 2, y \div 2)

----------------------------------------------------------------------------
(* RangeInc *)

\* RangeInc.__init__ raises ValueError
RangeIncInitRaises(start, stop, step) == stop < start \/ step <= 0

RangeInc(start, stop, step) == [start |-> start, stop |-> stop, step |-> step]

RECURSIVE RangeIncFrom(_, _, _)
RangeIncFrom(value, stop, step) ==
    IF value < stop THEN <<value>> \o RangeIncFrom(value + step, stop, step)
    ELSE <<stop>>

\* the while loop of __iter__ alone, without the final yield
RECURSIVE RangeIncFromNoStop(_, _, _)
RangeIncFromNoStop(value, stop, step) ==
    IF value < stop THEN <<value>> \o RangeIncFromNoStop(value + step, stop, step)
    ELSE <<>>

\* __iter__ were its last line `yield value`: the final value leaves the axis
RECURSIVE RangeIncFromOvershoot(_, _, _)
RangeIncFromOvershoot(value, stop, step) ==
    IF value < stop THEN <<value>> \o RangeIncFromOvershoot(value + step, stop, step)
    ELSE <<value>>

RangeIncIterOvershoot(r) == RangeIncFromOvershoot(r.start, r.stop, r.step)

\* __iter__ were its loop `while value <= stop`: a stop on the lattice comes twice
RangeIncIterInclusive(r) ==
    RangeIncFromNoStop(r.start, r.stop + 1, r.step) \o <<r.stop>>

\* list(RangeInc.__iter__())
RangeIncIter(r) == RangeIncFrom(r.start, r.stop, r.step)

\* RangeInc.__len__
RangeIncLen(r) == ((r.stop - r.start) \div r.step) + 1

----------------------------------------------------------------------------
(* Colour ranges and unpacking *)

RECURSIVE Flatten(_)
Flatten(ss) == IF ss = <<>> THEN <<>> ELSE Head(ss) \o Flatten(Tail(ss))

\* list(IndividualColorsRange.__iter__()) over the values vs
IndividualColorsIter(vs) ==
    Flatten([s \in 1..Len(COLOR_BITSHIFTS) |->
                [k \in 1..Len(vs) |-> ShiftLeft(vs[k], COLOR_BITSHIFTS[s])]])

Pack(red, green, blue) ==
    BitOr(BitOr(ShiftLeft(red, COLOR_BITSHIFTS[1]), ShiftLeft(green, COLOR_BITSHIFTS[2])),
          ShiftLeft(blue, COLOR_BITSHIFTS[3]))

\* list(WhiteOnlyRange.__iter__())
WhiteOnlyIter(vs) == [k \in 1..Len(vs) |-> Pack(vs[k], vs[k], vs[k])]

\* list(FullRainbowRange.__iter__())
FullRainbowIter(vs) ==
    Flatten([r \in 1..Len(vs) |->
        Flatten([g \in 1..Len(vs) |->
            [b \in 1..Len(vs) |-> Pack(vs[r], vs[g], vs[b])]])])

\* list(Mode.color_range(value_range).__iter__())
ColorRangeIter(m, vs) ==
    CASE m = "INDIVIDUAL" -> IndividualColorsIter(vs)
      [] m = "WHITE" -> WhiteOnlyIter(vs)
      [] m = "FULL" -> FullRainbowIter(vs)

\* len(Mode.color_range(value_range)) for a value range of length n
ColorRangeLen(m, n) ==
    CASE m = "INDIVIDUAL" -> n * Len(COLOR_BITSHIFTS)
      [] m = "WHITE" -> n
      [] m = "FULL" -> n * n * n

get_red(rgb_color) == ShiftRight(BitAnd(rgb_color, 16711680), 16)

\* get_green without its shift
get_green_unshifted(rgb_color) == BitAnd(rgb_color, 65280)

get_green(rgb_color) == ShiftRight(BitAnd(rgb_color, 65280), 8)

get_blue(rgb_color) == BitAnd(rgb_color, 255)

----------------------------------------------------------------------------
(* The command line: argparse namespace handed to run *)

DEFAULT_VOLTAGE == 500

\* Default(5): the wrapper argparse leaves when a voltage option is absent
Default(value) == [default |-> TRUE, value |-> value]

Given(value) == [default |-> FALSE, value |-> value]

ModeStrs == {"individual", "White", "full", "rainbow"}

\* str.upper() on the mode strings of the model
Upper(s) ==
    CASE s = "individual" -> "INDIVIDUAL"
      [] s = "White" -> "WHITE"
      [] s = "full" -> "FULL"
      [] s = "rainbow" -> "RAINBOW"

BrightnessMins == {0, 1}

BrightnessMaxs == {0, MaxBrightness}

BrightnessSteps == {0, 2}

ValueMins == {0, 200}

ValueMaxs == {100, 255}

ValueSteps == {0, 255}

VoltageMins == {Default(DEFAULT_VOLTAGE), Given(525), Given(575)}

VoltageMaxs == {Default(DEFAULT_VOLTAGE), Given(550), Given(600)}

VoltageSteps == {0, 25, 50}

ArgsSet ==
    [mode : ModeStrs,
     min_brightness : BrightnessMins, max_brightness : BrightnessMaxs,
     brightness_step : BrightnessSteps,
     min_value : ValueMins, max_value : ValueMaxs, value_step : ValueSteps,
     min_voltage : VoltageMins, max_voltage : VoltageMaxs, voltage_step : VoltageSteps,
     num_leds : {1, MaxLeds},
     current_offset : {2}]

----------------------------------------------------------------------------
(* Collaborator calls and output lines, as recorded in log and csv_file *)

Call(op, arg) == [op |-> op, arg |-> arg]

Line(kind, data) == [kind |-> kind, data |-> data]

HardwareOps == {"strip_init", "psu_open", "psu_model", "set_voltage", "global_brightness",
                "set_pixel", "show", "read_voltage", "read_current", "psu_close",
                "clear_strip", "cleanup"}

----------------------------------------------------------------------------
(* run: argument handling, lines 192-220 *)

\* lines 206-209: a defaulted bound takes the value of the given one
ResolveVoltages(a) ==
    IF a.max_voltage.default THEN [a EXCEPT !.max_voltage = a.min_voltage]
    ELSE IF a.min_voltage.default THEN [a EXCEPT !.min_voltage = a.max_voltage]
    ELSE a

\* run without the check of line 215
VoltageOutOfRangeUnchecked(max_voltage) == FALSE

\* line 215: float(args.max_voltage) > VOLTAGE_ABSOLUTE_MAX
VoltageOutOfRange(max_voltage) == max_voltage.value > VOLTAGE_ABSOLUTE_MAX

\* line 218
ModeInvalid(mode_str) == Upper(mode_str) \notin ModeNames

\* lines 202-219: does argument handling raise ValueError
ValidationRaises(a) ==
    LET r == ResolveVoltages(a) IN
       \/ RangeIncInitRaises(a.min_brightness, a.max_brightness, a.brightness_step)
       \/ RangeIncInitRaises(a.min_value, a.max_value, a.value_step)
       \/ /\ ~r.min_voltage.default
          /\ RangeIncInitRaises(r.min_voltage.value, r.max_voltage.value, a.voltage_step)
       \/ VoltageOutOfRange(r.max_voltage)
       \/ ModeInvalid(a.mode)

Validate ==
    /\ pc = "start"
    /\ args' = ResolveVoltages(args)
    /\ IF ValidationRaises(args)
       THEN /\ pc' = "raised"
            /\ exc' = "ValueError"
            /\ first_exc' = "ValueError"
            /\ UNCHANGED <<brightness_range, value_range, voltage_range, mode>>
       ELSE /\ pc' = "open_file"
            /\ brightness_range' =
                 <<RangeInc(args.min_brightness, args.max_brightness, args.brightness_step)>>
            /\ value_range' = <<RangeInc(args.min_value, args.max_value, args.value_step)>>
            /\ voltage_range' =
                 IF args'.min_voltage.default THEN <<>>
                 ELSE <<RangeInc(args'.min_voltage.value, args'.max_voltage.value,
                                 args.voltage_step)>>
            /\ mode' = Upper(args.mode)
            /\ UNCHANGED <<exc, first_exc>>
    /\ UNCHANGED <<nb_iterations, i, v_iter, b_iter, c_iter, setpoint, measured,
                   psu_voltage, csv_file, log, step_start, visited>>
    /\ UNCHANGED pureVars

----------------------------------------------------------------------------
(* run: the scoped acquisitions, lines 222-239 *)

\* line 222: the output file is created (mode 'w' or 'x')
OpenFile ==
    /\ pc = "open_file"
    /\ pc' = "new_strip"
    /\ csv_file' = <<>>
    /\ log' = Append(log, Call("open_file", <<>>))
    /\ UNCHANGED <<args, exc, first_exc, brightness_range, value_range, voltage_range,
                   mode, nb_iterations, i, v_iter, b_iter, c_iter, setpoint, measured,
                   psu_voltage, step_start, visited>>
    /\ UNCHANGED pureVars

\* line 223: the strip handle is acquired
NewStrip ==
    /\ pc = "new_strip"
    /\ pc' = "open_psu"
    /\ log' = Append(log, Call("strip_init", <<args.num_leds>>))
    /\ UNCHANGED <<args, exc, first_exc, brightness_range, value_range, voltage_range,
                   mode, nb_iterations, i, v_iter, b_iter, c_iter, setpoint, measured,
                   psu_voltage, csv_file, step_start, visited>>
    /\ UNCHANGED pureVars

\* line 225: the instrument connection is opened
OpenPsu ==
    /\ pc = "open_psu"
    /\ pc' = "show_model"
    /\ log' = Append(log, Call("psu_open", <<>>))
    /\ UNCHANGED <<args, exc, first_exc, brightness_range, value_range, voltage_range,
                   mode, nb_iterations, i, v_iter, b_iter, c_iter, setpoint, measured,
                   psu_voltage, csv_file, step_start, visited>>
    /\ UNCHANGED pureVars

\* lines 226-227: the instrument identity is read and displayed
ShowModel ==
    /\ pc = "show_model"
    /\ pc' = "write_metadata"
    /\ log' = Append(log, Call("psu_model", <<>>))
    /\ UNCHANGED <<args, exc, first_exc, brightness_range, value_range, voltage_range,
                   mode, nb_iterations, i, v_iter, b_iter, c_iter, setpoint, measured,
                   psu_voltage, csv_file, step_start, visited>>
    /\ UNCHANGED pureVars

\* lines 229-235: the metadata comment lines, the csv writer and the context
WriteMetadata ==
    /\ pc = "write_metadata"
    /\ pc' = "write_header"
    /\ csv_file' = csv_file \o <<Line("command", <<>>), Line("psu_model", <<>>),
                                 Line("blank", <<>>)>>
    /\ log' = log \o <<Call("write", <<>>), Call("psu_model", <<>>), Call("write", <<>>),
                       Call("write", <<>>)>>
    /\ UNCHANGED <<args, exc, first_exc, brightness_range, value_range, voltage_range,
                   mode, nb_iterations, i, v_iter, b_iter, c_iter, setpoint, measured,
                   psu_voltage, step_start, visited>>
    /\ UNCHANGED pureVars

----------------------------------------------------------------------------
(* run_measurements, lines 178-190 *)

\* the values `for voltage in voltage_range` yields: [None] or the RangeInc
VoltageValues ==
    IF voltage_range = <<>> THEN << <<>> >>
    ELSE LET vs == RangeIncIter(voltage_range[1]) IN [k \in 1..Len(vs) |-> <<vs[k]>>]

BrightnessValues == RangeIncIter(brightness_range[1])

ColorValues == ColorRangeIter(mode, RangeIncIter(value_range[1]))

\* len(voltage_range): 1 for the list [None]
VoltageLen == IF voltage_range = <<>> THEN 1 ELSE RangeIncLen(voltage_range[1])

HeaderLine == Line("header", <<>>)

\* lines 179-185
WriteHeader ==
    /\ pc = "write_header"
    /\ pc' = "loop"
    /\ csv_file' = Append(csv_file, HeaderLine)
    /\ log' = Append(log, Call("write", <<>>))
    /\ i' = 0
    /\ nb_iterations' = VoltageLen * RangeIncLen(brightness_range[1])
                           * ColorRangeLen(mode, RangeIncLen(value_range[1]))
    /\ v_iter' = VoltageValues
    /\ b_iter' = <<>>
    /\ c_iter' = <<>>
    /\ UNCHANGED <<args, exc, first_exc, brightness_range, value_range, voltage_range,
                   mode, setpoint, measured, psu_voltage, step_start, visited>>
    /\ UNCHANGED pureVars

\* the loops of lines 186-187 exchanged: brightness outermost, voltage in the middle
\* (v_iter then holds the brightness values left, b_iter the voltage values left)
LoopNextBrightnessOutermost ==
    IF c_iter # <<>>
    THEN [exhausted |-> FALSE, v_iter |-> v_iter, b_iter |-> b_iter, c_iter |-> Tail(c_iter),
          voltage |-> setpoint.voltage, brightness |-> setpoint.brightness,
          rgb_color |-> Head(c_iter)]
    ELSE IF b_iter # <<>>
    THEN [exhausted |-> FALSE, v_iter |-> v_iter, b_iter |-> Tail(b_iter),
          c_iter |-> Tail(ColorValues),
          voltage |-> Head(b_iter), brightness |-> setpoint.brightness,
          rgb_color |-> Head(ColorValues)]
    ELSE IF v_iter # <<>> /\ i = 0
    THEN [exhausted |-> FALSE, v_iter |-> Tail(BrightnessValues),
          b_iter |-> Tail(VoltageValues),
          c_iter |-> Tail(ColorValues),
          voltage |-> Head(VoltageValues), brightness |-> Head(BrightnessValues),
          rgb_color |-> Head(ColorValues)]
    ELSE IF v_iter # <<>>
    THEN [exhausted |-> FALSE, v_iter |-> Tail(v_iter), b_iter |-> Tail(VoltageValues),
          c_iter |-> Tail(ColorValues),
          voltage |-> Head(VoltageValues), brightness |-> Head(v_iter),
          rgb_color |-> Head(ColorValues)]
    ELSE [exhausted |-> TRUE, v_iter |-> v_iter, b_iter |-> b_iter, c_iter |-> c_iter,
          voltage |-> setpoint.voltage, brightness |-> setpoint.brightness,
          rgb_color |-> setpoint.rgb_color]

\* lines 186-188: the three nested for loops advance to the next Setpoint
LoopNext ==
    IF c_iter # <<>>
    THEN [exhausted |-> FALSE, v_iter |-> v_iter, b_iter |-> b_iter, c_iter |-> Tail(c_iter),
          voltage |-> setpoint.voltage, brightness |-> setpoint.brightness,
          rgb_color |-> Head(c_iter)]
    ELSE IF b_iter # <<>>
    THEN [exhausted |-> FALSE, v_iter |-> v_iter, b_iter |-> Tail(b_iter),
          c_iter |-> Tail(ColorValues),
          voltage |-> setpoint.voltage, brightness |-> Head(b_iter),
          rgb_color |-> Head(ColorValues)]
    ELSE IF v_iter # <<>>
    THEN [exhausted |-> FALSE, v_iter |-> Tail(v_iter), b_iter |-> Tail(BrightnessValues),
          c_iter |-> Tail(ColorValues),
          voltage |-> Head(v_iter), brightness |-> Head(BrightnessValues),
          rgb_color |-> Head(ColorValues)]
    ELSE [exhausted |-> TRUE, v_iter |-> v_iter, b_iter |-> b_iter, c_iter |-> c_iter,
          voltage |-> setpoint.voltage, brightness |-> setpoint.brightness,
          rgb_color |-> setpoint.rgb_color]

\* lines 186-190 and 151-154: next Setpoint, i += 1, the colour is unpacked;
\* or the loops are exhausted and the instrument's with block is left
NextSetpoint ==
    /\ pc = "loop"
    /\ LET n == LoopNext IN
         /\ v_iter' = n.v_iter
         /\ b_iter' = n.b_iter
         /\ c_iter' = n.c_iter
         /\ IF n.exhausted
            THEN /\ pc' = "psu_exit"
                 /\ UNCHANGED <<i, setpoint, measured, step_start, visited>>
            ELSE /\ pc' = "set_voltage"
                 /\ i' = i + 1
                 /\ setpoint' = [voltage |-> n.voltage, brightness |-> n.brightness,
                                 rgb_color |-> n.rgb_color,
                                 red |-> get_red(n.rgb_color),
                                 green |-> get_green(n.rgb_color),
                                 blue |-> get_blue(n.rgb_color)]
                 /\ measured' = <<>>
                 /\ step_start' = Len(log)
                 /\ visited' = Append(visited, <<n.voltage, n.brightness, n.rgb_color>>)
    /\ UNCHANGED <<args, exc, first_exc, brightness_range, value_range, voltage_range,
                   mode, nb_iterations, psu_voltage, csv_file, log>>
    /\ UNCHANGED pureVars

----------------------------------------------------------------------------
(* do_measurement and set_strip_color, lines 122-148 *)

\* set_strip_color were its loop range(1, num_leds): pixel 0 is never set
SetStripColorCallsFromOne(num_leds, red, green, blue, global_brightness) ==
    <<Call("global_brightness", <<global_brightness>>)>>
    \o [k \in 1..(num_leds - 1) |-> Call("set_pixel", <<k, red, green, blue>>)]
    \o <<Call("show", <<>>)>>

\* lines 122-129: the calls set_strip_color makes on the strip, led = 0..num_leds-1
SetStripColorCalls(num_leds, red, green, blue, global_brightness) ==
    <<Call("global_brightness", <<global_brightness>>)>>
    \o [k \in 1..num_leds |-> Call("set_pixel", <<k - 1, red, green, blue>>)]
    \o <<Call("show", <<>>)>>

\* lines 133-134
SetVoltage ==
    /\ pc = "set_voltage"
    /\ pc' = "set_strip_color"
    /\ IF setpoint.voltage # <<>>
       THEN /\ psu_voltage' = setpoint.voltage[1]
            /\ log' = Append(log, Call("set_voltage", setpoint.voltage))
       ELSE UNCHANGED <<psu_voltage, log>>
    /\ UNCHANGED <<args, exc, first_exc, brightness_range, value_range, voltage_range,
                   mode, nb_iterations, i, v_iter, b_iter, c_iter, setpoint, measured,
                   csv_file, step_start, visited>>
    /\ UNCHANGED pureVars

\* line 137
SetStripColor ==
    /\ pc = "set_strip_color"
    /\ pc' = "settle"
    /\ log' = log \o SetStripColorCalls(args.num_leds, setpoint.red, setpoint.green,
                                        setpoint.blue, setpoint.brightness)
    /\ UNCHANGED <<args, exc, first_exc, brightness_range, value_range, voltage_range,
                   mode, nb_iterations, i, v_iter, b_iter, c_iter, setpoint, measured,
                   psu_voltage, csv_file, step_start, visited>>
    /\ UNCHANGED pureVars

\* line 140
Settle ==
    /\ pc = "settle"
    /\ pc' = "read_voltage"
    /\ log' = Append(log, Call("sleep", <<>>))
    /\ UNCHANGED <<args, exc, first_exc, brightness_range, value_range, voltage_range,
                   mode, nb_iterations, i, v_iter, b_iter, c_iter, setpoint, measured,
                   psu_voltage, csv_file, step_start, visited>>
    /\ UNCHANGED pureVars

\* line 143: the stubbed instrument outputs its voltage setpoint
ReadVoltage ==
    /\ pc = "read_voltage"
    /\ pc' = "read_current"
    /\ measured' = <<psu_voltage>>
    /\ log' = Append(log, Call("read_voltage", <<>>))
    /\ UNCHANGED <<args, exc, first_exc, brightness_range, value_range, voltage_range,
                   mode, nb_iterations, i, v_iter, b_iter, c_iter, setpoint,
                   psu_voltage, csv_file, step_start, visited>>
    /\ UNCHANGED pureVars

\* the stubbed instrument's output current in mA: every pixel draws StubPixelCurrent
OutputCurrentMA == args.num_leds * StubPixelCurrent

\* line 144: per-pixel current less the offset (the division is exact on the stub)
ReadCurrent ==
    /\ pc = "read_current"
    /\ pc' = "write_row"
    /\ measured' = Append(measured, (OutputCurrentMA \div args.num_leds) - args.current_offset)
    /\ log' = Append(log, Call("read_current", <<>>))
    /\ UNCHANGED <<args, exc, first_exc, brightness_range, value_range, voltage_range,
                   mode, nb_iterations, i, v_iter, b_iter, c_iter, setpoint,
                   psu_voltage, csv_file, step_start, visited>>
    /\ UNCHANGED pureVars

\* the row with the red and blue columns exchanged
RowRedBlueSwapped(brightness, red, green, blue, voltage, current) ==
    <<brightness, blue, green, red, voltage, current>>

\* line 147: the row handed to csv_writer.writerow
Row(brightness, red, green, blue, voltage, current) ==
    <<brightness, red, green, blue, voltage, current>>

\* lines 147-148
WriteRow ==
    /\ pc = "write_row"
    /\ pc' = "progress"
    /\ csv_file' = Append(csv_file,
                          Line("row", Row(setpoint.brightness, setpoint.red, setpoint.green,
                                          setpoint.blue, measured[1], measured[2])))
    /\ log' = Append(log, Call("write", <<>>))
    /\ UNCHANGED <<args, exc, first_exc, brightness_range, value_range, voltage_range,
                   mode, nb_iterations, i, v_iter, b_iter, c_iter, setpoint, measured,
                   psu_voltage, step_start, visited>>
    /\ UNCHANGED pureVars

\* line 160: progress, in hundredths of a percent
Progress == (i * 10000) \div nb_iterations

\* line 163: the factor (nb_iterations - i) of time_remaining
IterationsRemaining == nb_iterations - i

\* lines 159-176: the progress display; control returns to the loops
ShowProgress ==
    /\ pc = "progress"
    /\ pc' = "loop"
    /\ UNCHANGED <<args, exc, first_exc, brightness_range, value_range, voltage_range,
                   mode, nb_iterations, i, v_iter, b_iter, c_iter, setpoint, measured,
                   psu_voltage, csv_file, log, step_start, visited>>
    /\ UNCHANGED pureVars

----------------------------------------------------------------------------
(* Collaborator errors and the exits of the with / try blocks of run *)

FalliblePcs == {"open_file", "new_strip", "open_psu", "show_model", "write_metadata",
                "set_voltage", "set_strip_color", "read_voltage", "read_current"}

\* the exception the failing collaborator raises
ErrorAt(p) ==
    CASE p = "open_file" -> "FileExistsError"
      [] p \in {"new_strip", "set_strip_color"} -> "DeviceError"
      [] OTHER -> "InstrumentError"

\* the calls issued up to and including the failing one
FailedCalls(p) ==
    CASE p = "open_file" -> <<>>
      [] p = "new_strip" -> <<Call("strip_init", <<args.num_leds>>)>>
      [] p = "open_psu" -> <<Call("psu_open", <<>>)>>
      [] p = "show_model" -> <<Call("psu_model", <<>>)>>
      [] p = "write_metadata" -> <<Call("write", <<>>), Call("psu_model", <<>>)>>
      [] p = "set_voltage" -> <<Call("set_voltage", setpoint.voltage)>>
      [] p = "set_strip_color" ->
            SetStripColorCalls(args.num_leds, setpoint.red, setpoint.green,
                               setpoint.blue, setpoint.brightness)
      [] p = "read_voltage" -> <<Call("read_voltage", <<>>)>>
      [] p = "read_current" -> <<Call("read_current", <<>>)>>

\* run without its try/finally: an exception only closes the file
UnwindTargetNoFinally(p) ==
    CASE p = "open_file" -> "raised"
      [] OTHER -> "close_file"

\* where an exception raised at p is first handled: outside every block (222),
\* at the exit of the file's with block (223), at the finally (225), or at the
\* exit of the instrument's with block (226-236)
UnwindTarget(p) ==
    CASE p = "open_file" -> "raised"
      [] p = "new_strip" -> "close_file"
      [] p = "open_psu" -> "finally"
      [] OTHER -> "psu_exit"

\* a collaborator call raises: open() on an existing file without --force, the
\* strip driver, or the instrument
CollaboratorError ==
    /\ pc \in FalliblePcs
    /\ pc = "set_voltage" => setpoint.voltage # <<>>
    /\ exc' = ErrorAt(pc)
    /\ first_exc' = ErrorAt(pc)
    /\ log' = log \o FailedCalls(pc) \o <<Call("raise", <<>>)>>
    /\ csv_file' = IF pc = "write_metadata" THEN Append(csv_file, Line("command", <<>>))
                   ELSE csv_file
    /\ pc' = UnwindTarget(pc)
    /\ UNCHANGED <<args, brightness_range, value_range, voltage_range,
                   mode, nb_iterations, i, v_iter, b_iter, c_iter, setpoint, measured,
                   psu_voltage, step_start, visited>>
    /\ UNCHANGED pureVars

\* line 225, exit of `with KoradSerial(...)`: the connection is closed
ExitPsu ==
    /\ pc = "psu_exit"
    /\ pc' = "finally"
    /\ log' = Append(log, Call("psu_close", <<>>))
    /\ UNCHANGED <<args, exc, first_exc, brightness_range, value_range, voltage_range,
                   mode, nb_iterations, i, v_iter, b_iter, c_iter, setpoint, measured,
                   psu_voltage, csv_file, step_start, visited>>
    /\ UNCHANGED pureVars

\* lines 237-239: a finally block re-raises the exception in flight
FinallyOutcome(e) == e

\* lines 237-239
Finally ==
    /\ pc = "finally"
    /\ pc' = "close_file"
    /\ log' = log \o <<Call("clear_strip", <<>>), Call("cleanup", <<>>)>>
    /\ exc' = FinallyOutcome(exc)
    /\ UNCHANGED <<args, first_exc, brightness_range, value_range, voltage_range,
                   mode, nb_iterations, i, v_iter, b_iter, c_iter, setpoint, measured,
                   psu_voltage, csv_file, step_start, visited>>
    /\ UNCHANGED pureVars

\* line 222, exit of `with open(...)`: the file is closed, run returns or raises
CloseFile ==
    /\ pc = "close_file"
    /\ pc' = IF exc = "none" THEN "done" ELSE "raised"
    /\ log' = Append(log, Call("close_file", <<>>))
    /\ UNCHANGED <<args, exc, first_exc, brightness_range, value_range, voltage_range,
                   mode, nb_iterations, i, v_iter, b_iter, c_iter, setpoint, measured,
                   psu_voltage, csv_file, step_start, visited>>
    /\ UNCHANGED pureVars

----------------------------------------------------------------------------
(* The sweep as a state machine *)

NoSetpoint == [voltage |-> <<>>, brightness |-> 0, rgb_color |-> 0,
               red |-> 0, green |-> 0, blue |-> 0]

PureIdle ==
    /\ p_pc = "idle"
    /\ p_rng = RangeInc(0, 0, 1)
    /\ p_mode = "WHITE"
    /\ p_values = <<>>
    /\ p_len = 0
    /\ p_colors = <<>>

RunInit(a) ==
    /\ args = a
    /\ pc = "start"
    /\ exc = "none"
    /\ first_exc = "none"
    /\ brightness_range = <<>>
    /\ value_range = <<>>
    /\ voltage_range = <<>>
    /\ mode = "none"
    /\ nb_iterations = 0
    /\ i = 0
    /\ v_iter = <<>>
    /\ b_iter = <<>>
    /\ c_iter = <<>>
    /\ setpoint = NoSetpoint
    /\ measured = <<>>
    /\ psu_voltage = PsuPresetVoltage
    /\ csv_file = <<>>
    /\ log = <<>>
    /\ step_start = 0
    /\ visited = <<>>

Init == (\E a \in ArgsSet : RunInit(a)) /\ PureIdle

Next ==
    \/ Validate
    \/ OpenFile
    \/ NewStrip
    \/ OpenPsu
    \/ ShowModel
    \/ WriteMetadata
    \/ WriteHeader
    \/ NextSetpoint
    \/ SetVoltage
    \/ SetStripColor
    \/ Settle
    \/ ReadVoltage
    \/ ReadCurrent
    \/ WriteRow
    \/ ShowProgress
    \/ CollaboratorError
    \/ ExitPsu
    \/ Finally
    \/ CloseFile

Spec == Init /\ [][Next]_vars

----------------------------------------------------------------------------
(* The pure functions on their own: RangeInc and the colour ranges applied to *)
(* arguments drawn from wider sets than a whole sweep allows                  *)

MaxStart == 3

MaxStop == 10

MaxStep == 3

SmallRanges == {RangeInc(a, b, c) : a \in 0..MaxStart, b \in 0..MaxStop, c \in 0..MaxStep}

ByteRanges == {RangeInc(a, b, c) : a \in {0, 1, 128, 255}, b \in {127, 255, 256, 300},
                                   c \in {64, 100, 255}}

\* RangeInc.__init__, lines 93-101
PureConstruct ==
    /\ p_pc = "new"
    /\ p_pc' = IF RangeIncInitRaises(p_rng.start, p_rng.stop, p_rng.step)
               THEN "raised" ELSE "constructed"
    /\ UNCHANGED <<p_rng, p_mode, p_values, p_len, p_colors>>
    /\ UNCHANGED runVars

\* list(r) and len(r), lines 103-111
PureIterate ==
    /\ p_pc = "constructed"
    /\ p_pc' = "iterated"
    /\ p_values' = RangeIncIter(p_rng)
    /\ p_len' = RangeIncLen(p_rng)
    /\ UNCHANGED <<p_rng, p_mode, p_colors>>
    /\ UNCHANGED runVars

\* the colour range of the mode over the values, unpacked as in lines 151-154
PureColors ==
    /\ p_pc = "iterated"
    /\ p_pc' = "unpacked"
    /\ p_colors' = LET cs == ColorRangeIter(p_mode, p_values) IN
                     [k \in 1..Len(cs) |-> <<get_red(cs[k]), get_green(cs[k]), get_blue(cs[k])>>]
    /\ UNCHANGED <<p_rng, p_mode, p_values, p_len>>
    /\ UNCHANGED runVars

IdleArgs ==
    [mode |-> "individual", min_brightness |-> 0, max_brightness |-> 0,
     brightness_step |-> 0, min_value |-> 0, max_value |-> 100, value_step |-> 0,
     min_voltage |-> Default(DEFAULT_VOLTAGE), max_voltage |-> Default(DEFAULT_VOLTAGE),
     voltage_step |-> 0, num_leds |-> 1, current_offset |-> 2]

InitPure ==
    /\ RunInit(IdleArgs)
    /\ p_pc = "new"
    /\ p_rng \in SmallRanges \cup ByteRanges
    /\ p_mode \in ModeNames
    /\ p_values = <<>>
    /\ p_len = 0
    /\ p_colors = <<>>

NextPure ==
    \/ PureConstruct
    \/ PureIterate
    \/ PureColors

SpecPure == InitPure /\ [][NextPure]_vars

----------------------------------------------------------------------------
(* Properties of RangeInc and of the colour ranges, checked under SpecPure *)

IsPrefix(s, t) == Len(s) =< Len(t) /\ SubSeq(t, 1, Len(s)) = s

Iterated == p_pc \in {"iterated", "unpacked"}

\* C1: for every RangeInc with start <= stop and step > 0, the number of values
\* iteration produces equals the reported length floor((stop-start)/step)+1,
\* also when (stop-start) is no multiple of step.
C1_LenIsCount ==
    Iterated =>
        /\ p_len = ((p_rng.stop - p_rng.start) \div p_rng.step) + 1
        /\ Len(p_values) = p_len

\* C2: iteration yields start first, then start+k*step for each k while that value
\* is below stop, and finally stop exactly once, as the last element; the sequence
\* is strictly increasing, and it is <<start>> when start = stop.
C2_IterationValues ==
    Iterated =>
        LET n == Len(p_values) IN
        /\ n >= 1
        /\ p_values[1] = p_rng.start
        /\ p_values[n] = p_rng.stop
        /\ \A k \in 1..(n - 1) :
              /\ p_values[k] = p_rng.start + (k - 1) * p_rng.step
              /\ p_values[k] < p_rng.stop
              /\ p_values[k] < p_values[k + 1]
        /\ p_rng.start + (n - 1) * p_rng.step >= p_rng.stop
        /\ Cardinality({k \in 1..n : p_values[k] = p_rng.stop}) = 1
        /\ (p_rng.start = p_rng.stop => p_values = <<p_rng.start>>)

\* RangeInc(0, 10, 3) has been iterated: stop is appended off the step lattice
C2_Witness == p_pc = "iterated" /\ p_values = <<0, 3, 6, 9, 10>>

\* the triples a mode is to produce over the values vs, by position
ExpectedTriples(m, vs) ==
    LET n == Len(vs) IN
    CASE m = "INDIVIDUAL" ->
           [k \in 1..(3 * n) |->
              LET v == vs[((k - 1) % n) + 1] IN
              CASE (k - 1) \div n = 0 -> <<v, 0, 0>>
                [] (k - 1) \div n = 1 -> <<0, v, 0>>
                [] (k - 1) \div n = 2 -> <<0, 0, v>>]
      [] m = "WHITE" -> [k \in 1..n |-> <<vs[k], vs[k], vs[k]>>]
      [] m = "FULL" ->
           [k \in 1..(n * n * n) |->
              <<vs[((k - 1) \div (n * n)) + 1], vs[(((k - 1) \div n) % n) + 1],
                vs[((k - 1) % n) + 1]>>]

ValuesAreBytes == \A k \in 1..Len(p_values) : p_values[k] \in 0..255

\* C9: for a value axis within 0..255 the unpacked triples are, per mode:
\* Individual (v,0,0) for every v in order, then (0,v,0), then (0,0,v); White
\* (v,v,v); Full the cross-product with red outermost and blue innermost. Each
\* unpacked channel is the axis value, unchanged.
C9_UnpackedColors ==
    (p_pc = "unpacked" /\ ValuesAreBytes) => p_colors = ExpectedTriples(p_mode, p_values)

\* a Full sweep over several byte values, 255 among them, has been unpacked
C9_Witness ==
    /\ p_pc = "unpacked"
    /\ p_mode = "FULL"
    /\ p_values = <<1, 65, 129, 193, 255>>
    /\ Len(p_colors) = 125

----------------------------------------------------------------------------
(* Properties of the sweep, checked under Spec *)

StepPcs == {"set_voltage", "set_strip_color", "settle", "read_voltage", "read_current",
            "write_row", "progress"}

Terminated == pc \in {"done", "raised"}

RangesConstructed == brightness_range # <<>>

\* C3: the total count run_measurements computes is the size of the iteration
\* space: the step index i stays within 1..total at every step and equals total
\* at the last Setpoint (progress 100%, no iterations remaining).
C3_TotalIsTraversalSize ==
    /\ pc \in StepPcs => i \in 1..nb_iterations
    /\ pc = "done" => /\ i = nb_iterations
                      /\ Progress = 10000
                      /\ IterationsRemaining = 0

\* the Setpoints in the order voltage, brightness, colour, by position
ExpectedTraversal ==
    LET V == VoltageValues
        B == BrightnessValues
        C == ColorValues
    IN [k \in 1..(Len(V) * Len(B) * Len(C)) |->
           <<V[((k - 1) \div (Len(B) * Len(C))) + 1],
             B[(((k - 1) \div Len(C)) % Len(B)) + 1],
             C[((k - 1) % Len(C)) + 1]>>]

\* C4: Setpoints are visited with voltage outermost, then brightness, then colour:
\* between consecutive Setpoints the brightness changes only when the colour
\* sequence has been fully traversed and restarts, the voltage only when the
\* brightness axis has been fully traversed and restarts; a completed sweep has
\* visited every (voltage, brightness, colour) combination.
C4_NestingOrder ==
    RangesConstructed =>
        LET B == BrightnessValues
            C == ColorValues
        IN /\ IsPrefix(visited, ExpectedTraversal)
           /\ pc = "done" => visited = ExpectedTraversal
           /\ \A k \in 1..(Len(visited) - 1) :
                 /\ visited[k][2] # visited[k + 1][2] =>
                        /\ k % Len(C) = 0
                        /\ visited[k + 1][3] = C[1]
                 /\ visited[k][1] # visited[k + 1][1] =>
                        /\ k % (Len(B) * Len(C)) = 0
                        /\ visited[k + 1][2] = B[1]
                        /\ visited[k + 1][3] = C[1]

\* a sweep over two voltages, several brightnesses and several colours has completed
C4_Witness ==
    /\ pc = "done"
    /\ Len(VoltageValues) = 2
    /\ Len(BrightnessValues) >= 2
    /\ Len(ColorValues) >= 2
    /\ Len(visited) = 2 * Len(BrightnessValues) * Len(ColorValues)

Count(op) == Cardinality({k \in 1..Len(log) : log[k].op = op})

\* NewStrip returned the handle: the constructor was called and did not raise
StripAcquired ==
    \E k \in 1..Len(log) :
        /\ log[k].op = "strip_init"
        /\ (k < Len(log) => log[k + 1].op # "raise")

\* C5: once the strip handle is acquired, however the sweep ends, clear_strip then
\* cleanup are invoked exactly once, after the last hardware command of the sweep,
\* and on failure the original error reaches the caller unmodified.
C5_CleanupExactlyOnce ==
    /\ Count("clear_strip") =< 1
    /\ Count("cleanup") =< 1
    /\ (Terminated /\ StripAcquired) =>
          /\ \E k \in 1..(Len(log) - 1) :
                /\ log[k].op = "clear_strip"
                /\ log[k + 1].op = "cleanup"
                /\ \A j \in 1..Len(log) :
                      (log[j].op \in HardwareOps /\ j \notin {k, k + 1}) => j < k
          /\ Count("clear_strip") = 1
          /\ Count("cleanup") = 1
          /\ exc = first_exc
          /\ (pc = "raised") = (first_exc # "none")
          /\ (pc = "done") = (first_exc = "none")

\* the strip driver raised in the middle of a sweep and run has propagated it
C5_Witness ==
    /\ pc = "raised"
    /\ exc = "DeviceError"
    /\ i >= 2
    /\ Count("clear_strip") = 1

AxisInvalid(start, stop, step) == stop < start \/ step =< 0

VoltageAxisGiven(a) == ~a.min_voltage.default \/ ~a.max_voltage.default

\* the voltage bounds in effect: a bound left out takes the value of the other
MinVoltageInEffect(a) ==
    IF a.min_voltage.default THEN a.max_voltage.value ELSE a.min_voltage.value

MaxVoltageInEffect(a) ==
    IF a.max_voltage.default THEN a.min_voltage.value ELSE a.max_voltage.value

ConfigurationInvalid(a) ==
    \/ AxisInvalid(a.min_brightness, a.max_brightness, a.brightness_step)
    \/ AxisInvalid(a.min_value, a.max_value, a.value_step)
    \/ /\ VoltageAxisGiven(a)
       /\ AxisInvalid(MinVoltageInEffect(a), MaxVoltageInEffect(a), a.voltage_step)
    \/ a.mode \notin {"individual", "White", "full"}
    \/ MaxVoltageInEffect(a) > VOLTAGE_ABSOLUTE_MAX

\* C6: given an invalid axis (stop < start or step <= 0 on the brightness, the
\* value or a configured voltage axis), an unrecognized mode or a maximum voltage
\* above the ceiling, run raises before the output file is created, the strip
\* constructed or the instrument opened: no collaborator is ever called.
C6_FailFast ==
    ConfigurationInvalid(args) =>
        /\ pc \in {"start", "raised"}
        /\ log = <<>>
        /\ csv_file = <<>>
        /\ (pc = "raised" => exc = "ValueError")

\* run has raised on an unrecognized mode, every axis being valid
C6_Witness ==
    /\ pc = "raised"
    /\ exc = "ValueError"
    /\ args.mode = "rainbow"
    /\ ~AxisInvalid(args.min_brightness, args.max_brightness, args.brightness_step)
    /\ ~AxisInvalid(args.min_value, args.max_value, args.value_step)
    /\ args.voltage_step > 0
    /\ MaxVoltageInEffect(args) =< VOLTAGE_ABSOLUTE_MAX
    /\ log = <<>>

\* the calls one measurement step is to make, in order
ExpectedStepCalls ==
    (IF setpoint.voltage # <<>> THEN <<Call("set_voltage", setpoint.voltage)>> ELSE <<>>)
    \o <<Call("global_brightness", <<setpoint.brightness>>)>>
    \o [k \in 1..args.num_leds |->
           Call("set_pixel", <<k - 1, setpoint.red, setpoint.green, setpoint.blue>>)]
    \o <<Call("show", <<>>), Call("sleep", <<>>), Call("read_voltage", <<>>),
         Call("read_current", <<>>), Call("write", <<>>)>>

\* the calls of the current step, up to an exception or the end of the sweep
StepCalls ==
    LET ends == {k \in (step_start + 1)..Len(log) : log[k].op \in {"raise", "psu_close"}}
        last == IF ends = {} THEN Len(log)
                ELSE (CHOOSE k \in ends : \A j \in ends : k =< j) - 1
    IN SubSeq(log, step_start + 1, last)

VoltageCalls == IF setpoint.voltage # <<>> THEN 1 ELSE 0

\* C7: within each step the calls occur in this order and no other: the voltage
\* is commanded iff the Setpoint has one; then global brightness, every pixel
\* 0..num_leds-1 and the frame push; then the settle wait; then the voltage and
\* the current read-back. No read-back precedes the wait, and no command of the
\* next Setpoint precedes the read-back of the current one.
C7_StepOrder ==
    i >= 1 =>
        LET done == Len(StepCalls)
            strip == VoltageCalls + args.num_leds + 2
        IN /\ IsPrefix(StepCalls, ExpectedStepCalls)
           /\ pc = "set_voltage" => done = 0
           /\ pc = "set_strip_color" => done = VoltageCalls
           /\ pc = "settle" => done = strip
           /\ pc = "read_voltage" => done = strip + 1
           /\ pc = "read_current" => done = strip + 2
           /\ pc = "write_row" => done = strip + 3
           /\ pc \in {"progress", "loop"} => StepCalls = ExpectedStepCalls

\* a later step with a voltage and several pixels has read back and not yet written
C7_Witness ==
    /\ pc = "write_row"
    /\ i >= 2
    /\ setpoint.voltage # <<>>
    /\ args.num_leds >= 2
    /\ StepCalls # <<>>

Rows == SelectSeq(csv_file, LAMBDA l : l.kind = "row")

\* read-backs that completed: the current was read and the read did not raise
ReadBacks ==
    Cardinality({k \in 1..Len(log) :
                    /\ log[k].op = "read_current"
                    /\ (k < Len(log) => log[k + 1].op # "raise")})

MetadataLines == <<Line("command", <<>>), Line("psu_model", <<>>), Line("blank", <<>>)>>

DatasetInv ==
    /\ \/ IsPrefix(csv_file, MetadataLines)
       \/ csv_file = MetadataLines \o <<HeaderLine>> \o Rows
    /\ Len(Rows) = IF pc = "write_row" THEN ReadBacks - 1 ELSE ReadBacks
    /\ Len(Rows) =< Len(visited)
    /\ \A k \in 1..Len(Rows) :
          /\ Rows[k].data[1] = visited[k][2]
          /\ Rows[k].data[2] = (visited[k][3] \div 65536) % 256
          /\ Rows[k].data[3] = (visited[k][3] \div 256) % 256
          /\ Rows[k].data[4] = visited[k][3] % 256
          /\ visited[k][1] # <<>> => Rows[k].data[5] = visited[k][1][1]
    /\ (pc \in {"progress", "loop", "done"} /\ i >= 1) => Len(Rows) = i
    /\ (pc = "raised" /\ i >= 1) => Len(Rows) = i - 1

\* C8: the dataset is append-only: the header row, then exactly one row per
\* Setpoint whose step completed, in traversal order; a sweep aborted at step k
\* leaves k-1 rows, and no row is written for a read-back that did not complete.
C8_Dataset == [][IsPrefix(csv_file, csv_file') /\ DatasetInv']_vars

\* a sweep aborted by the instrument at its third step has left two rows
C8_Witness ==
    /\ pc = "raised"
    /\ i = 3
    /\ Len(Rows) = 2
    /\ exc = "InstrumentError"

\* C10: in every sweep, whichever of the min/max voltage arguments are given,
\* every voltage commanded to the instrument is at most VOLTAGE_ABSOLUTE_MAX.
C10_VoltageCeiling ==
    /\ psu_voltage =< VOLTAGE_ABSOLUTE_MAX
    /\ \A k \in 1..Len(log) :
          log[k].op = "set_voltage" => log[k].arg[1] =< VOLTAGE_ABSOLUTE_MAX

\* the ceiling itself has been commanded, as the stop of an axis whose step
\* does not divide its span
C10_Witness ==
    /\ voltage_range = <<RangeInc(525, 550, 50)>>
    /\ \E k \in 1..Len(log) : log[k] = Call("set_voltage", <<VOLTAGE_ABSOLUTE_MAX>>)

====
